---- MODULE Spec2Model ----
(***************************************************************************)
(* m5stats-monitor: watches one path through inotify and sends SIGUSR1 to  *)
(* a process on every event record read from the inotify descriptor.       *)
(*                                                                         *)
(* The process is a single thread; pc is its position in                   *)
(* main -> create_file_monitor -> monitor_file -> handle_inotify_event ->  *)
(* read_inotify_event.  The kernel side (the notification channel and the  *)
(* results of the system calls) is the environment: the channel is a byte  *)
(* stream of queued records, and every system call may fail with one of    *)
(* its errno values.                                                       *)
(***************************************************************************)
EXTENDS Integers, Sequences, FiniteSets, TLC

VARIABLES
    pc,            \* position of the process
    argv,          \* the argument vector, argv[1] is the program name
    m5stats_file,  \* main: char *m5stats_file
    pid,           \* main: pid_t pid
    cfd,           \* create_file_monitor: int fd
    wd,            \* create_file_monitor: int wd
    fd,            \* main / monitor_file: int fd
    errno,         \* the C errno
    status,        \* exit status of the process, once pc = "exit"
    len,           \* read_inotify_event: ssize_t len
    res,           \* read_inotify_event: ssize_t res, 0 outside its scope
    partial,       \* a read of this reader call left the record incomplete
    stderr,        \* what was printed on the error stream
    records,       \* event records the kernel has queued so far, oldest first
    avail,         \* bytes of the channel not yet read
    consumed,      \* bytes of the channel read so far
    closed,        \* the channel delivers nothing beyond the avail bytes
    signals,       \* the kill calls made so far, in order
    called,        \* names of the system calls made so far
    last,          \* the last system call and its result
    readLog        \* read calls of one reader call, counted in ReaderSpec only

vars == <<pc, argv, m5stats_file, pid, cfd, wd, fd, errno, status, len, res,
          partial, stderr, records, avail, consumed, closed, signals, called, last,
          readLog>>

----------------------------------------------------------------------------
(* Bounds of the model *)

MaxRecords == 2

\* most bytes at the tail of the channel that a close may leave undelivered
MaxCut == 1

\* most read calls returning 0 that ReaderSpec follows
MaxZeroReads == 2

----------------------------------------------------------------------------
(* Constants of the program and of its platform *)

\* sizeof(struct inotify_event): int wd; uint32_t mask, cookie, len
PrefixSize == 16

EINVAL == 22

IN_MODIFY == 2

IN_CREATE == 256

SIGUSR1 == 10

\* errno values of the failing calls (Linux numbering)
InitErrnos == {12, 24}       \* ENOMEM, EMFILE
WatchErrnos == {2, 13}       \* ENOENT, EACCES
PollErrnos == {4, 12}        \* EINTR, ENOMEM
ReadErrnos == {4, 5}         \* EINTR, EIO
KillErrnos == {1, 3}         \* EPERM, ESRCH

\* descriptors inotify_init may return
Fds == {3}

\* lengths of the name field a queued record may declare
NameLens == {0, 3, 16}

Masks == {IN_MODIFY, IN_CREATE}

Program == <<"m", "5">>
Path == <<"s", "t">>
ArgVectors ==
    { <<Program, Path>>,
      <<Program, Path, <<"4", "2">> >>,
      <<Program, Path, <<"7", "x">> >>,
      <<Program, Path, <<"4", "2">>, <<"1">> >> }

UsageText == "Usage: m5stat-monitor PATH PID"

NoCall == [op |-> "none", fd |-> -1, ok |-> TRUE, err |-> 0]

NoReads == [calls |-> 0, zeros |-> 0]

----------------------------------------------------------------------------
(* Pure parts of the program *)

IsDigit(c) == c \in {"0", "1", "2", "3", "4", "5", "6", "7", "8", "9"}

DigitValue(c) ==
    CASE c = "0" -> 0 [] c = "1" -> 1 [] c = "2" -> 2 [] c = "3" -> 3
      [] c = "4" -> 4 [] c = "5" -> 5 [] c = "6" -> 6 [] c = "7" -> 7
      [] c = "8" -> 8 [] c = "9" -> 9

RECURSIVE AtoiDigits(_, _, _)
AtoiDigits(s, i, acc) ==
    IF i > Len(s) \/ ~IsDigit(s[i])
    THEN acc
    ELSE AtoiDigits(s, i + 1, acc * 10 + DigitValue(s[i]))

\* atoi: optional sign, then the leading digits; 0 when there are none
Atoi(s) ==
    IF Len(s) > 0 /\ s[1] = "-" THEN 0 - AtoiDigits(s, 2, 0)
    ELSE IF Len(s) > 0 /\ s[1] = "+" THEN AtoiDigits(s, 2, 0)
    ELSE AtoiDigits(s, 1, 0)

\* the status a parent sees is the low 8 bits of main's return value
ExitStatus(v) == v % 256

\* slip: only too few arguments are refused
ParseStatus_AtLeast(argc) == IF argc < 3 THEN EINVAL ELSE 0

\* parse_argv: if (argc != 3) { usage(); return EINVAL; }
ParseStatus(argc) == IF argc # 3 THEN EINVAL ELSE 0

\* slip: the failure of inotify_init is not looked at
InitFailed_Never(f) == FALSE

\* create_file_monitor: if (fd < 0) return fd;
InitFailed(f) == f < 0

\* slip: the failure of inotify_add_watch is not looked at
WatchFailed_Never(w) == FALSE

\* create_file_monitor: if (wd < 0) return wd;
WatchFailed(w) == w < 0

\* slip: return wd; instead of return fd;
MonitorResult_Wd(f, w) == w

\* create_file_monitor's return value once both calls were made
MonitorResult(f, w) == IF WatchFailed(w) THEN w ELSE f

\* main: if (fd < 0) return -fd;
MainFailed(f) == f < 0

MainFailStatus(f) == 0 - f

\* slip: if (status) return errno;
PollFailed_NonZero(st) == st # 0

\* slip: the result of poll is dropped
PollFailed_Never(st) == FALSE

\* monitor_file: if (status < 0) return errno;
PollFailed(st) == st < 0

\* slip: the loop returns after every round
LoopExits_Always(st) == TRUE

\* monitor_file: if (status) return status;
LoopExits(st) == st # 0

\* slip: the poll is left out of the loop
LoopHead_NoWait == "handle"

\* monitor_file: for (;;) starts every round with the poll
LoopHead == "poll"

\* slip: the reader's status is dropped
ReaderFailed_Never(st) == FALSE

\* handle_inotify_event: if (status) return status;
ReaderFailed(st) == st # 0

\* slip: the result of kill is dropped
KillFailed_Never(r) == FALSE

\* handle_inotify_event: if (kill(pid, SIGUSR1)) return errno;
KillFailed(r) == r # 0

\* slip: only modifications are notified
ShouldNotify_ModifyOnly(e) == e.mask = IN_MODIFY

\* handle_inotify_event: "Check inotify event here" is a comment only, the
\* kill follows for every event read
ShouldNotify(e) == TRUE

\* read_inotify_event: if (res < 0) return errno;
ReadFailed(r) == r < 0

\* slip: the reader stops at the first bytes it gets
ReaderDone_AnyBytes(l) == l > 0

\* read_inotify_event: while (len != sizeof(*out))
ReaderDone(l) == l = PrefixSize

\* slip: every read asks for sizeof(*out) bytes
ReadCount_Whole(l) == PrefixSize

\* read_inotify_event: the count passed to read, sizeof(*out)-len
ReadCount(l) == PrefixSize - l

\* slip: len = res
Accumulate_Overwrite(l, r) == r

\* read_inotify_event: len += res;
Accumulate(l, r) == l + r

----------------------------------------------------------------------------
(* The channel *)

RecordSize(r) == PrefixSize + r.len

RECURSIVE StreamLen(_)
StreamLen(rs) == IF rs = <<>> THEN 0 ELSE RecordSize(Head(rs)) + StreamLen(Tail(rs))

Min(a, b) == IF a < b THEN a ELSE b

\* offsets of the channel at which a record starts or the stream ends
Boundaries(rs) == {StreamLen(SubSeq(rs, 1, i)) : i \in 0..Len(rs)}

\* what PrefixSize bytes read from offset off hold: the prefix of the record
\* that starts there, or bytes that are no record prefix
NoEvent == [wd |-> 0, mask |-> 0, cookie |-> 0, len |-> 0]

HeaderAt(off) ==
    IF \E i \in 1..Len(records) : StreamLen(SubSeq(records, 1, i - 1)) = off
    THEN records[CHOOSE i \in 1..Len(records) :
                    StreamLen(SubSeq(records, 1, i - 1)) = off]
    ELSE NoEvent

\* handle_inotify_event: struct inotify_event ie, once the reader filled it
BufferEvent == HeaderAt(consumed - PrefixSize)

\* poll(POLLIN) with no timeout returns once the descriptor is readable or
\* hung up
PollReady == avail > 0 \/ closed

----------------------------------------------------------------------------
Init ==
    /\ pc = "main"
    /\ argv \in ArgVectors
    /\ m5stats_file = <<>>
    /\ pid = 0
    /\ cfd = 0
    /\ wd = 0
    /\ fd = 0
    /\ errno = 0
    /\ status = 0
    /\ len = 0
    /\ res = 0
    /\ partial = FALSE
    /\ stderr = ""
    /\ records = <<>>
    /\ avail = 0
    /\ consumed = 0
    /\ closed = FALSE
    /\ signals = <<>>
    /\ called = {}
    /\ last = NoCall
    /\ readLog = NoReads

\* the process ends with main returning v
Exit(v) ==
    /\ pc' = "exit"
    /\ status' = ExitStatus(v)

\* monitor_file after handle_inotify_event returned hs
AfterHandle(hs) ==
    IF LoopExits(hs)
    THEN Exit(hs)
    ELSE pc' = LoopHead /\ UNCHANGED status

chanVars == <<records, avail, consumed, closed>>
argVars == <<argv, m5stats_file, pid>>
readVars == <<len, res, partial>>

\* the outcomes of a system call: what it returns and the errno it sets
Fail(errnos) == {[ret |-> -1, err |-> e] : e \in errnos}
Ok(rets) == {[ret |-> r, err |-> 0] : r \in rets}

\* the process makes the call op on descriptor f with outcome out
Syscall(op, f, out) ==
    /\ called' = called \cup {op}
    /\ errno' = IF out.ret < 0 THEN out.err ELSE errno
    /\ last' = [op |-> op, fd |-> f, ok |-> out.ret >= 0, err |-> out.err]

\* main up to the call of create_file_monitor: parse_argv
Main ==
    /\ pc = "main"
    /\ LET st == ParseStatus(Len(argv)) IN
       IF st # 0
       THEN /\ stderr' = UsageText
            /\ Exit(st)
            /\ UNCHANGED <<m5stats_file, pid>>
       ELSE /\ m5stats_file' = argv[2]
            /\ pid' = Atoi(argv[3])
            /\ pc' = "inotify_init"
            /\ UNCHANGED <<stderr, status>>
    /\ UNCHANGED <<argv, cfd, wd, fd, errno, readVars, chanVars, signals, called, last>>
    /\ UNCHANGED readLog

\* create_file_monitor: int fd = inotify_init(); if (fd < 0) return fd;
\* and, on that return, main: if (fd < 0) return -fd;
InotifyInit ==
    /\ pc = "inotify_init"
    /\ \E out \in Fail(InitErrnos) \cup Ok(Fds) :
         /\ Syscall("inotify_init", -1, out)
         /\ cfd' = out.ret
    /\ IF InitFailed(cfd')
       THEN /\ fd' = cfd'
            /\ IF MainFailed(fd') THEN Exit(MainFailStatus(fd'))
               ELSE pc' = LoopHead /\ UNCHANGED status
       ELSE /\ pc' = "inotify_add_watch"
            /\ UNCHANGED <<fd, status>>
    /\ UNCHANGED <<argVars, wd, stderr, readVars, chanVars, signals>>
    /\ UNCHANGED readLog

\* create_file_monitor: int wd = inotify_add_watch(...); if (wd < 0) return
\* wd; return fd; and main: if (fd < 0) return -fd; return monitor_file(...)
InotifyAddWatch ==
    /\ pc = "inotify_add_watch"
    /\ \E out \in Fail(WatchErrnos) \cup Ok({1}) :
         /\ Syscall("inotify_add_watch", cfd, out)
         /\ wd' = out.ret
    /\ fd' = MonitorResult(cfd, wd')
    /\ IF MainFailed(fd') THEN Exit(MainFailStatus(fd'))
       ELSE pc' = LoopHead /\ UNCHANGED status
    /\ UNCHANGED <<argVars, cfd, stderr, readVars, chanVars, signals>>
    /\ UNCHANGED readLog

\* monitor_file: int status = poll(&pfd, 1, -1); if (status < 0) return errno;
Poll ==
    /\ pc = "poll"
    /\ \E out \in Fail(PollErrnos) \cup Ok({1}) :
         /\ out.ret >= 0 => PollReady
         /\ Syscall("poll", fd, out)
         /\ IF PollFailed(out.ret) THEN Exit(errno')
            ELSE pc' = "handle" /\ UNCHANGED status
    /\ UNCHANGED <<argVars, cfd, wd, fd, stderr, readVars, chanVars, signals>>
    /\ UNCHANGED readLog

\* handle_inotify_event calls read_inotify_event: len = 0 and the first test
\* of the while condition
Handle ==
    /\ pc = "handle"
    /\ len' = 0
    /\ partial' = FALSE
    /\ pc' = IF ReaderDone(len') THEN "kill" ELSE "read"
    /\ UNCHANGED <<argVars, cfd, wd, fd, errno, status, res, stderr, chanVars,
                   signals, called, last>>
    /\ UNCHANGED readLog

\* what a read of count bytes can return: an error unless the channel is at
\* its end, 1..count of the pending bytes, 0 at the end of a closed channel.
\* With nothing pending on an open channel the call waits.
ReadOutcomes(count) ==
    (IF closed /\ avail = 0 THEN {} ELSE Fail(ReadErrnos))
    \cup Ok(1..Min(avail, count))
    \cup (IF (closed /\ avail = 0) \/ count = 0 THEN Ok({0}) ELSE {})

\* read_inotify_event: ssize_t res = read(fd, &buf[len], sizeof(*out)-len);
ReadCallBody(out) ==
    /\ pc = "read"
    /\ out \in ReadOutcomes(ReadCount(len))
    /\ Syscall("read", fd, out)
    /\ res' = out.ret
    /\ avail' = IF out.ret > 0 THEN avail - out.ret ELSE avail
    /\ consumed' = IF out.ret > 0 THEN consumed + out.ret ELSE consumed
    /\ pc' = "read_ret"
    /\ UNCHANGED <<argVars, cfd, wd, fd, status, len, partial, stderr, records,
                   closed, signals>>

ReadCall ==
    /\ \E out \in ReadOutcomes(ReadCount(len)) : ReadCallBody(out)
    /\ UNCHANGED readLog

\* read_inotify_event: if (res < 0) return errno; len += res; and the next
\* test of the while condition; the return value goes through
\* handle_inotify_event (if (status) return status;) to monitor_file
ReadReturn ==
    /\ pc = "read_ret"
    /\ res' = 0
    /\ IF ReadFailed(res)
       THEN /\ UNCHANGED <<len, partial>>
            /\ IF ReaderFailed(errno) THEN AfterHandle(errno)
               ELSE pc' = "kill" /\ UNCHANGED status
       ELSE /\ len' = Accumulate(len, res)
            /\ partial' = (partial \/ ~ReaderDone(len'))
            /\ IF ReaderDone(len')
               THEN IF ReaderFailed(0) THEN AfterHandle(0)
                    ELSE pc' = "kill" /\ UNCHANGED status
               ELSE pc' = "read" /\ UNCHANGED status
    /\ UNCHANGED <<argVars, cfd, wd, fd, errno, stderr, chanVars, signals,
                   called, last>>
    /\ UNCHANGED readLog

\* handle_inotify_event: if (kill(pid, SIGUSR1)) return errno; return 0;
\* and monitor_file: if (status) return status;
Kill ==
    /\ pc = "kill"
    /\ IF ShouldNotify(BufferEvent)
       THEN /\ signals' = Append(signals, [pid |-> pid, sig |-> SIGUSR1])
            /\ \E out \in Fail(KillErrnos) \cup Ok({0}) :
                 /\ Syscall("kill", -1, out)
                 /\ AfterHandle(IF KillFailed(out.ret) THEN errno' ELSE 0)
       ELSE /\ AfterHandle(0)
            /\ UNCHANGED <<signals, called, errno, last>>
    /\ UNCHANGED <<argVars, cfd, wd, fd, stderr, readVars, chanVars>>
    /\ UNCHANGED readLog

\* the watch is registered and the process is alive
Watching == pc \in {"poll", "handle", "read", "read_ret", "kill"}

\* the kernel queues one event record on the channel
Deliver ==
    /\ Watching
    /\ ~closed
    /\ Len(records) < MaxRecords
    /\ \E m \in Masks, n \in NameLens :
         LET r == [wd |-> wd, mask |-> m, cookie |-> 0, len |-> n] IN
         /\ records' = Append(records, r)
         /\ avail' = avail + RecordSize(r)
    /\ UNCHANGED <<pc, argVars, cfd, wd, fd, errno, status, readVars, stderr,
                   consumed, closed, signals, called, last>>
    /\ UNCHANGED readLog

\* the channel closes; the last cut bytes queued are never delivered
Close ==
    /\ Watching
    /\ ~closed
    /\ closed' = TRUE
    /\ \E cut \in 0..Min(avail, MaxCut) : avail' = avail - cut
    /\ UNCHANGED <<pc, argVars, cfd, wd, fd, errno, status, readVars, stderr,
                   records, consumed, signals, called, last>>
    /\ UNCHANGED readLog

Next ==
    \/ Main
    \/ InotifyInit
    \/ InotifyAddWatch
    \/ Poll
    \/ Handle
    \/ ReadCall
    \/ ReadReturn
    \/ Kill
    \/ Deliver
    \/ Close

Spec == Init /\ [][Next]_vars

\* the process runs whenever it can: each of its steps is taken if it stays
\* enabled; the environment owes nothing
Fairness ==
    /\ WF_vars(Main)
    /\ WF_vars(InotifyInit)
    /\ WF_vars(InotifyAddWatch)
    /\ WF_vars(Poll)
    /\ WF_vars(Handle)
    /\ WF_vars(ReadCall)
    /\ WF_vars(ReadReturn)
    /\ WF_vars(Kill)

FairSpec == Spec /\ Fairness

----------------------------------------------------------------------------
(* read_inotify_event on its own: one call of the reader, from the first   *)
(* wakeup of the loop, with its read calls counted                         *)

ReaderInit ==
    /\ pc = "handle"
    /\ argv = <<Program, Path, <<"4", "2">> >>
    /\ m5stats_file = Path
    /\ pid = Atoi(argv[3])
    /\ cfd \in Fds
    /\ wd = 1
    /\ fd = cfd
    /\ errno = 0
    /\ status = 0
    /\ len = 0
    /\ res = 0
    /\ partial = FALSE
    /\ stderr = ""
    /\ records \in {<<>>} \cup
          {<<[wd |-> 1, mask |-> m, cookie |-> 0, len |-> n]>> :
              m \in Masks, n \in NameLens}
    /\ avail = StreamLen(records)
    /\ consumed = 0
    /\ closed \in BOOLEAN
    /\ PollReady
    /\ signals = <<>>
    /\ called = {"inotify_init", "inotify_add_watch", "poll"}
    /\ last = [op |-> "poll", fd |-> fd, ok |-> TRUE, err |-> 0]
    /\ readLog = NoReads

ReaderReadCall ==
    \E out \in ReadOutcomes(ReadCount(len)) :
        /\ out.ret = 0 => readLog.zeros < MaxZeroReads
        /\ ReadCallBody(out)
        /\ readLog' = [calls |-> readLog.calls + 1,
                       zeros |-> readLog.zeros + (IF out.ret = 0 THEN 1 ELSE 0)]

ReaderNext ==
    \/ Handle
    \/ ReaderReadCall
    \/ ReadReturn
    \/ Close

ReaderSpec == ReaderInit /\ [][ReaderNext]_vars

----------------------------------------------------------------------------
(* Vocabulary of the properties *)

\* number of kill calls made so far
Kills == Len(signals)

AllNameless == \A i \in 1..Len(records) : records[i].len = 0

\* a close left bytes of a queued record undelivered
Truncated == consumed + avail < StreamLen(records)

\* errno is only ever written by a failing call
NoCallFailed == errno = 0

InLoop == pc \in {"poll", "handle", "read", "read_ret", "kill"}

----------------------------------------------------------------------------
\* C1: while every queued record is name-less and no call has failed, the
\* k-th kill is made when exactly k record prefixes have been read (record k
\* in full, no byte of record k+1), no byte of the next record is read before
\* that kill, and once the loop waits in poll with the channel drained the
\* number of kill calls equals the number of records delivered.
C1_OneKillPerRecordInOrder ==
    (AllNameless /\ NoCallFailed) =>
        /\ pc = "kill" => consumed = PrefixSize * (Kills + 1)
        /\ pc \in {"poll", "handle"} => consumed = PrefixSize * Kills
        /\ pc = "read" => len < PrefixSize /\ consumed = PrefixSize * Kills + len
        /\ pc = "read_ret" =>
              /\ res >= 0
              /\ len + res <= PrefixSize
              /\ consumed = PrefixSize * Kills + len + res
        /\ (pc = "poll" /\ avail = 0 /\ ~Truncated) => Kills = Len(records)

C1_Witness ==
    /\ pc = "poll"
    /\ AllNameless /\ NoCallFailed /\ ~Truncated
    /\ avail = 0
    /\ Len(records) >= 2
    /\ Kills = Len(records)

\* C2: a kill call is made only when the reader has accumulated the whole
\* record prefix, however the bytes were split over read calls; the step
\* that completes the prefix leads to the kill, and the kill is made once.
C2_NoPartialRecordNotified ==
    [][ /\ signals' # signals =>
              /\ len = PrefixSize
              /\ Len(signals') = Len(signals) + 1
              /\ pc' # "kill"
        /\ pc' = "kill" => len' = PrefixSize
        /\ (pc = "read_ret" /\ len' = PrefixSize) => pc' = "kill"
      ]_vars

C2_Witness ==
    /\ partial
    /\ len = PrefixSize
    /\ last.op = "kill"
    /\ Kills = 1

\* C3: monitor_file returns only in a step in which a poll, read or kill
\* call has just reported failure, and a round that ends with a successful
\* kill is followed by the wait in poll.
C3_LoopEndsOnlyOnFailure ==
    [][ /\ (InLoop /\ pc' = "exit") =>
              /\ ~last'.ok
              /\ \/ pc = "poll" /\ last'.op = "poll"
                 \/ pc = "read_ret" /\ last'.op = "read" /\ last' = last
                 \/ pc = "kill" /\ last'.op = "kill"
        /\ (pc = "kill" /\ signals' # signals /\ last'.ok) => pc' = "poll"
      ]_vars

C3_Witness ==
    /\ pc = "poll"
    /\ Kills >= 2
    /\ last.op = "kill" /\ last.ok
    /\ NoCallFailed

\* C4: when the process has ended because a system call failed, its exit
\* status is the errno that call reported.
C4_StatusIsErrno ==
    (pc = "exit" /\ ~last.ok) => status = last.err

\* C5: once inotify_init has failed the process has ended with a non-zero
\* status and has made no other system call.
C5_InitFailureEndsRun ==
    cfd < 0 =>
        /\ pc = "exit"
        /\ status # 0
        /\ called = {"inotify_init"}

C5_Witness ==
    /\ cfd < 0
    /\ pc = "exit"
    /\ last.op = "inotify_init" /\ ~last.ok

\* C6: once inotify_add_watch has failed on an opened channel the process
\* has ended with a non-zero status and has made no poll, read or kill call.
C6_WatchFailureEndsRun ==
    wd < 0 =>
        /\ cfd >= 0
        /\ pc = "exit"
        /\ status # 0
        /\ called = {"inotify_init", "inotify_add_watch"}

C6_Witness ==
    /\ wd < 0
    /\ cfd >= 0
    /\ pc = "exit"
    /\ last.op = "inotify_add_watch" /\ ~last.ok

\* C7: once a kill call has failed the process has ended with that call's
\* errno as its status, and from then on no call is made and no byte is read,
\* whatever is still pending on the channel.
C7_KillFailureEndsRun ==
    /\ []((last.op = "kill" /\ ~last.ok) => (pc = "exit" /\ status = last.err))
    /\ [][pc = "exit" =>
            /\ pc' = "exit"
            /\ UNCHANGED <<called, signals, consumed, avail, last, status>>]_vars

C7_Witness ==
    /\ last.op = "kill" /\ ~last.ok
    /\ pc = "exit"
    /\ avail >= PrefixSize

\* C8: a read call that fails, with or without bytes of the record already
\* accumulated, is not retried: the next step of the process ends it with
\* that call's errno as its status, and no kill call is made.
C8_ReadFailureEndsRun ==
    /\ []((last.op = "read" /\ ~last.ok) =>
            \/ pc = "read_ret" /\ res < 0
            \/ pc = "exit" /\ status = last.err)
    /\ [][(pc = "read_ret" /\ res < 0 /\ pc' # pc) =>
            /\ pc' = "exit"
            /\ status' = errno
            /\ UNCHANGED <<called, signals, consumed, last>>]_vars

C8_Witness ==
    /\ pc = "exit"
    /\ last.op = "read" /\ ~last.ok
    /\ len > 0 /\ len < PrefixSize
    /\ status = 4

\* C9: when the channel has closed with a record prefix partly accumulated
\* and nothing left to deliver, the process eventually ends.
C9_ClosedMidRecordEnds ==
    (pc = "read" /\ closed /\ avail = 0 /\ len > 0 /\ len < PrefixSize)
        ~> (pc = "exit")

\* C10 as stated: poll is the only call in which the process waits, so the
\* reader never issues a read on the open channel with no bytes available.
C10_PollIsOnlySuspension ==
    ~(pc = "read" /\ ~closed /\ avail = 0)

\* C10, amended: while the channel is open and every queued record is
\* name-less, the loop leaves poll only with a whole record pending and every
\* read the reader issues finds the rest of that record available, so poll
\* is the only call in which the process waits.
C10_ReadNeverWaitsOnWholeRecords ==
    (~closed /\ AllNameless) =>
        /\ pc = "handle" => avail >= PrefixSize
        /\ pc = "read" => (ReadCount(len) > 0 /\ avail >= ReadCount(len))

C10_Witness ==
    /\ pc = "read"
    /\ ~closed /\ AllNameless
    /\ len > 0
    /\ Kills >= 1

\* C11: the process never ends with exit status 0; parse_argv returns 0 only
\* for the accepted argument count, and main then goes on to the calls.
C11_ExitStatusNeverZero ==
    /\ pc = "exit" => status # 0
    /\ pc \notin {"main", "exit"} => ParseStatus(Len(argv)) = 0

C11_Witness ==
    /\ pc = "exit"
    /\ last.op = "poll" /\ ~last.ok
    /\ Kills >= 1
    /\ status # 0

\* C12: started with an argument count other than program, PATH, PID, the
\* process prints the usage text on the error stream and ends with a
\* non-zero status without making any system call.
C12_WrongArgcPrintsUsage ==
    (Len(argv) # 3 /\ pc # "main") =>
        /\ pc = "exit"
        /\ stderr = UsageText
        /\ status = EINVAL /\ status # 0
        /\ called = {}

C12_Witness ==
    /\ Len(argv) = 4
    /\ pc = "exit"
    /\ stderr = UsageText

\* C13: once a poll call has failed the process has ended with that call's
\* errno as its status; the wait is not retried and no read or kill call is
\* made for it.
C13_PollFailureEndsRun ==
    /\ []((last.op = "poll" /\ ~last.ok) => (pc = "exit" /\ status = last.err))
    /\ [][(pc = "poll" /\ last' # last /\ ~last'.ok) =>
            /\ pc' = "exit"
            /\ UNCHANGED <<signals, consumed, avail, len>>]_vars

C13_Witness ==
    /\ pc = "exit"
    /\ last.op = "poll" /\ ~last.ok
    /\ status = 4
    /\ avail >= PrefixSize

\* C14: the process goes round the cycle poll -> reader -> kill: the reader
\* is entered only by a successful return of poll and once for it, kill is
\* made only after the reader has returned and once, the next poll starts
\* only after a successful kill, and each round drains exactly one record
\* prefix and makes one kill however many records are pending.
C14_StrictCycle ==
    /\ []((pc = "poll" /\ NoCallFailed) => consumed = PrefixSize * Kills)
    /\ []((NoCallFailed /\ InLoop) => consumed <= PrefixSize * (Kills + 1))
    /\ [][ /\ (pc' = "handle" /\ pc # "handle") =>
                 (pc = "poll" /\ last'.op = "poll" /\ last'.ok)
           /\ (pc = "handle" /\ pc' # "handle") => (pc' = "read" /\ len' = 0)
           /\ (pc' = "read" /\ pc # "read") => pc \in {"handle", "read_ret"}
           /\ (pc' = "kill" /\ pc # "kill") => pc = "read_ret"
           /\ signals' # signals =>
                 (pc = "kill" /\ pc' \in {"poll", "exit"}
                    /\ Len(signals') = Len(signals) + 1)
           /\ (pc' = "poll" /\ pc # "poll") =>
                 \/ pc = "inotify_add_watch"
                 \/ pc = "kill" /\ last'.op = "kill" /\ last'.ok
         ]_vars

C14_Witness ==
    /\ pc = "poll"
    /\ NoCallFailed
    /\ Len(records) = 2
    /\ Kills = 1 /\ consumed = PrefixSize
    /\ avail >= PrefixSize
    /\ last.op = "kill"

\* C17: every kill call is made with the pid parse_argv produced from
\* argv[2] and with SIGUSR1, every poll and read call is made on the
\* descriptor inotify_init returned, and no step of the loop changes the pid
\* or the descriptor.
C17_PidAndDescriptorFixed ==
    /\ [](\A i \in 1..Len(signals) :
            signals[i] = [pid |-> Atoi(argv[3]), sig |-> SIGUSR1])
    /\ [](last.op \in {"poll", "read"} =>
            (last.fd = cfd /\ fd = cfd /\ cfd \in Fds))
    /\ [][InLoop => (pid' = pid /\ fd' = fd /\ cfd' = cfd /\ argv' = argv)]_vars

C17_Witness ==
    /\ Kills >= 2
    /\ last.op = "read"
    /\ pid = 7

\* C18: the offset len stays within 0..sizeof(struct inotify_event), and a
\* read issued at offset len returns at most the bytes that fit behind it,
\* so what it stores stays inside the record buffer.
C18_OffsetWithinBuffer ==
    /\ 0 <= len /\ len <= PrefixSize
    /\ pc = "read" => len < PrefixSize
    /\ pc = "read_ret" => (res >= -1 /\ len + res <= PrefixSize)

C18_Witness ==
    /\ pc = "read_ret"
    /\ len > 0
    /\ res > 0
    /\ len + res = PrefixSize

\* C15: the kill calls do not depend on what the records hold: for every
\* mask, name length and alignment of the bytes read, the kill calls made
\* are one [pid, SIGUSR1] per record prefix read in full, so their sequence
\* is fixed by the pid and the number of bytes read alone.
C15_KillsIgnoreRecordContents ==
    (NoCallFailed /\ InLoop) =>
        LET inProgress == CASE pc = "read" -> len
                            [] pc = "read_ret" -> len + res
                            [] pc = "kill" -> PrefixSize
                            [] OTHER -> 0
            done == consumed - inProgress
        IN  /\ done % PrefixSize = 0
            /\ signals = [i \in 1..(done \div PrefixSize) |->
                             [pid |-> pid, sig |-> SIGUSR1]]

C15_Witness ==
    /\ NoCallFailed
    /\ pc = "poll"
    /\ Len(records) = 2
    /\ records[1].mask = IN_CREATE /\ records[2].mask = IN_MODIFY
    /\ records[1].len # records[2].len
    /\ Kills >= 2

\* C16: the reader never skips name data: with no failed call, reader call
\* k+1 starts at byte PrefixSize * k of the channel, and after the prefix of
\* the first record that declares a name that is the first byte of its name,
\* not a record boundary; the kill calls can then outnumber the records.
C16_ReaderStartsInNameData ==
    (NoCallFailed /\ pc = "handle") =>
        /\ consumed = PrefixSize * Kills
        /\ \A j \in 1..Len(records) :
              ( /\ records[j].len > 0
                /\ \A i \in 1..(j - 1) : records[i].len = 0
                /\ Kills = j ) =>
                  /\ consumed = StreamLen(SubSeq(records, 1, j)) - records[j].len
                  /\ consumed \notin Boundaries(records)

C16_Witness ==
    /\ NoCallFailed
    /\ pc = "poll"
    /\ records # <<>>
    /\ records[1].len > 0
    /\ Kills > Len(records)

\* C19: when every read call fails or returns at least one byte, one call
\* of the reader makes at most PrefixSize read calls and has returned once
\* that many were made; it returns 0 (the kill follows) exactly with the
\* whole prefix accumulated, and the errno of the failed read otherwise.
C19_ReaderReturnsWithinPrefixSizeReads ==
    /\ readLog.zeros = 0 =>
          /\ readLog.calls <= PrefixSize
          /\ pc = "read" => readLog.calls <= len
          /\ (readLog.calls = PrefixSize /\ pc # "read_ret") =>
                pc \in {"kill", "exit"}
    /\ pc = "kill" => len = PrefixSize
    /\ pc = "read" => len < PrefixSize
    /\ pc = "exit" =>
          /\ len < PrefixSize
          /\ last.op = "read" /\ ~last.ok
          /\ status = last.err /\ status # 0

C19_Witness ==
    /\ pc = "kill"
    /\ readLog.calls = PrefixSize
    /\ readLog.zeros = 0

====
